---- MODULE Spec2Model ----
(***************************************************************************)
(* The SparkApplicationController of pkg/controller/controller.go: the     *)
(* informer callbacks (onAdd, onDelete), submitApp, the three reducers     *)
(* (processSingle{App,Driver,Executor}StateUpdate), handleRestart and      *)
(* updateSparkApplicationWithRetries, running as four goroutines that      *)
(* share runningApps under one mutex and talk to a versioned API server.   *)
(* One SparkApplication resource is followed from its creation to its      *)
(* deletion; its objects are records [ver, RestartPolicy,                  *)
(* SubmissionByUser, Status].  A pointer is Nil or Some(object).           *)
(***************************************************************************)
EXTENDS Integers, Sequences, FiniteSets, TLC

VARIABLES
  remote,         \* the API server's object for the name: Nil or Some(object)
  revision,       \* the API server's resourceVersion counter
  created,        \* whether the user has created the resource
  notifications,  \* the informer's queue of add/delete notifications
  runningApps,    \* s.runningApps: appID -> object
  mutex,          \* s.mutex: "free" or the goroutine holding it
  pc,             \* each goroutine's position
  ctx,            \* each goroutine's locals inside updateSparkApplicationWithRetries
  lastID,         \* the last appID a persisted submission was given
  submissions,    \* the requests handed to s.runner.submit
  recorded        \* the events given to s.recorder: <<reason, appID>>

vars == <<remote, revision, created, notifications, runningApps, mutex, pc, ctx,
          lastID, submissions, recorded>>

(***************************************************************************)
(* Bounds of the model.                                                    *)
(***************************************************************************)
MaxVersion == 4    \* resourceVersions the API server hands out; past it, it refuses writes
MaxTime == 2       \* the instants events and records carry are 0 (the zero time) .. MaxTime

maximumUpdateRetries == 3

Nil == <<>>
Some(x) == <<x>>
Val(p) == p[1]

Procs == {"informer", "app", "driver", "executor"}

\* v1alpha1.ApplicationStateType; "" is the zero value.
NewState == "NEW"
SubmittedState == "SUBMITTED"
RunningState == "RUNNING"
CompletedState == "COMPLETED"
FailedState == "FAILED"
FailedSubmissionState == "SUBMISSION_FAILED"
ApplicationStates ==
  {NewState, SubmittedState, RunningState, CompletedState, FailedState,
   FailedSubmissionState}

\* v1alpha1.RestartPolicy
Undefined == "Undefined"
Never == "Never"
OnFailure == "OnFailure"
Always == "Always"
RestartPolicies == {Undefined, Never, OnFailure, Always}

\* apiv1.PodPhase
PodPhases == {"Pending", "Running", "Succeeded", "Failed", "Unknown"}

\* v1alpha1.ExecutorState
ExecutorPendingState == "PENDING"
ExecutorStates == {ExecutorPendingState, "RUNNING", "COMPLETED", "FAILED", "UNKNOWN"}

ExecutorPods == {"exec-1"}
DriverPods == {"driver"}
NodeNames == {"", "node"}
NodeIPs == {"", "ip"}
ErrorMessages == {"", "error"}
\* time.Time values: 0 is the zero time, 1 an instant.
Instants == {0, 1}

\* A map[string]ExecutorState: nil, or the entries it holds ("" = no entry).
NilMap == [isNil |-> TRUE, m |-> [p \in ExecutorPods |-> ""]]
EmptyMap == [isNil |-> FALSE, m |-> [p \in ExecutorPods |-> ""]]

\* The zero v1alpha1.SparkApplicationStatus; AppID 0 is the empty string.
EmptyStatus ==
  [AppID |-> 0, State |-> "", ErrorMessage |-> "", PodName |-> "",
   WebUIAddress |-> <<>>, WebUIPort |-> 0, ExecutorState |-> NilMap,
   SubmissionTime |-> 0, CompletionTime |-> 0]

\* Mutant of isAppTerminated: the test forgets FailedState.
isAppTerminatedCompletedOnly(appState) == appState = CompletedState

isAppTerminated(appState) ==
  appState = CompletedState \/ appState = FailedState

\* Mutant of driverPodPhaseToApplicationState: PodSucceeded is not a case of
\* the switch and falls to the default.
driverPodPhaseToApplicationStateNoSucceeded(podPhase) ==
  CASE podPhase = "Pending" -> SubmittedState
    [] podPhase = "Running" -> RunningState
    [] podPhase = "Failed" -> FailedState
    [] OTHER -> ""

driverPodPhaseToApplicationState(podPhase) ==
  CASE podPhase = "Pending" -> SubmittedState
    [] podPhase = "Running" -> RunningState
    [] podPhase = "Succeeded" -> CompletedState
    [] podPhase = "Failed" -> FailedState
    [] OTHER -> ""

\* Mutant of restartEligible: the first test forgets Undefined and the second
\* restarts a Failed application whatever the policy.
restartEligibleFailedAnyPolicy(policy, state) ==
  IF policy = Never THEN FALSE ELSE state = FailedState \/ policy = Always

\* Mutant of appStateUpdateFunc: the state is overwritten without the test
\* for a terminal state.
appStateUpdateFuncAlways(toUpdate, update) ==
  LET stated == [toUpdate EXCEPT !.Status.State = update.state,
                                 !.Status.ErrorMessage = update.errorMessage]
      submitted ==
        IF update.submissionTime # 0
        THEN [stated EXCEPT !.Status.SubmissionTime = update.submissionTime]
        ELSE stated
  IN  IF update.completionTime # 0
      THEN [submitted EXCEPT !.Status.CompletionTime = update.completionTime]
      ELSE submitted

\* The restart decision of handleRestart, in the order of its two tests.
restartEligible(policy, state) ==
  IF policy = Never \/ policy = Undefined
  THEN FALSE
  ELSE (state = FailedState /\ policy = OnFailure) \/ policy = Always

\* createSparkUIService records the port of the UI service in the status.
createSparkUIService(app) == [app EXCEPT !.Status.WebUIPort = 4040]

\* The closure submitApp passes to the updater; appID is buildAppID's result.
submitAppUpdateFunc(toUpdate, resubmission, appID) ==
  LET cleared == IF resubmission
                 THEN [toUpdate EXCEPT !.Status = EmptyStatus]
                 ELSE toUpdate
      started == [cleared EXCEPT !.Status.AppID = appID,
                                 !.Status.State = NewState]
  IN  createSparkUIService(started)

\* Mutant of driverUpdateFunc: the address is appended to the stored one.
driverUpdateFuncAppends(toUpdate, update, nodeIP) ==
  LET named == [toUpdate EXCEPT !.Status.PodName = update.podName]
      addressed ==
        IF update.nodeName # "" /\ nodeIP # ""
        THEN [named EXCEPT !.Status.WebUIAddress =
                              @ \o <<nodeIP, named.Status.WebUIPort>>]
        ELSE named
      appState == driverPodPhaseToApplicationState(update.podPhase)
  IN  IF isAppTerminated(appState)
      THEN [addressed EXCEPT !.Status.State = appState]
      ELSE addressed

\* The closure of processSingleDriverStateUpdate; nodeIP is what
\* getNodeExternalIP(update.nodeName) returns.
driverUpdateFunc(toUpdate, update, nodeIP) ==
  LET named == [toUpdate EXCEPT !.Status.PodName = update.podName]
      addressed ==
        IF update.nodeName # "" /\ nodeIP # ""
        THEN [named EXCEPT !.Status.WebUIAddress =
                              <<nodeIP, named.Status.WebUIPort>>]
        ELSE named
      appState == driverPodPhaseToApplicationState(update.podPhase)
  IN  IF isAppTerminated(appState)
      THEN [addressed EXCEPT !.Status.State = appState]
      ELSE addressed

\* The closure of processSingleAppStateUpdate.
appStateUpdateFunc(toUpdate, update) ==
  LET stated ==
        IF ~isAppTerminated(toUpdate.Status.State)
           \/ update.state = FailedSubmissionState
        THEN [toUpdate EXCEPT !.Status.State = update.state,
                              !.Status.ErrorMessage = update.errorMessage]
        ELSE toUpdate
      submitted ==
        IF update.submissionTime # 0
        THEN [stated EXCEPT !.Status.SubmissionTime = update.submissionTime]
        ELSE stated
  IN  IF update.completionTime # 0
      THEN [submitted EXCEPT !.Status.CompletionTime = update.completionTime]
      ELSE submitted

\* The closure of processSingleExecutorStateUpdate.
executorUpdateFunc(toUpdate, update) ==
  LET made == IF toUpdate.Status.ExecutorState.isNil
              THEN [toUpdate EXCEPT !.Status.ExecutorState = EmptyMap]
              ELSE toUpdate
  IN  IF update.state # ExecutorPendingState
      THEN [made EXCEPT !.Status.ExecutorState.m[update.podName] = update.state]
      ELSE made

(***************************************************************************)
(* updateSparkApplicationWithRetries.  A goroutine's locals are            *)
(* [kind, update, original, toUpdate, i, result] plus the numbers of       *)
(* updateFunc, Update and Get calls made in the current invocation.        *)
(***************************************************************************)
NoCtx ==
  [kind |-> "none", update |-> Nil, original |-> Nil, toUpdate |-> Nil,
   i |-> 0, result |-> Nil, nApply |-> 0, nUpdate |-> 0, nGet |-> 0]

\* The locals on entry: toUpdate is app.DeepCopy().
Entry(kind, update, app) ==
  [kind |-> kind, update |-> Some(update), original |-> Some(app),
   toUpdate |-> Some(app), i |-> 0, result |-> Nil, nApply |-> 0,
   nUpdate |-> 0, nGet |-> 0]

\* buildAppID hashes name, namespace, uid and the current nanosecond time;
\* successive submissions get distinct values.
buildAppID == lastID + 1

\* updateFunc(toUpdate) for the closure the caller passed.
ApplyUpdateFunc(c, nodeIP) ==
  CASE c.kind = "submit" ->
         submitAppUpdateFunc(Val(c.toUpdate), Val(c.update).resubmission,
                             buildAppID)
    [] c.kind = "driver" -> driverUpdateFunc(Val(c.toUpdate), Val(c.update), nodeIP)
    [] c.kind = "app" -> appStateUpdateFunc(Val(c.toUpdate), Val(c.update))
    [] c.kind = "executor" -> executorUpdateFunc(Val(c.toUpdate), Val(c.update))

\* Mutant of StatusUnchanged: only the application state is compared.
StatusUnchangedStateOnly(original, toUpdate) ==
  original.Status.State = toUpdate.Status.State

\* reflect.DeepEqual(original.Status, toUpdate.Status)
StatusUnchanged(original, toUpdate) == original.Status = toUpdate.Status

\* The API server accepts an Update that carries the current resourceVersion.
UpdateAccepted(obj) ==
  /\ remote # Nil
  /\ Val(remote).ver = obj.ver
  /\ revision < MaxVersion

\* The locals after client.Get, the loop's i++ and its test: lines 358-366.
\* got is whether the API server answered the Get.
AfterGet(c, got) ==
  IF got /\ remote # Nil
  THEN [c EXCEPT !.toUpdate = remote, !.i = @ + 1, !.nGet = @ + 1]
  ELSE [c EXCEPT !.toUpdate = Nil, !.nGet = @ + 1]

\* Mutant of AfterGetPc: the loop test lets a fourth pass run.
AfterGetPcOneMore(c) ==
  IF c.toUpdate # Nil /\ c.i <= maximumUpdateRetries THEN "update" ELSE "ret"

\* Where the updater is once a Get has left it with locals c.
AfterGetPc(c) ==
  IF c.toUpdate # Nil /\ c.i < maximumUpdateRetries THEN "update" ELSE "ret"

\* One pass of the loop body, lines 345-364: updateFunc, the DeepEqual test,
\* client.Update and, when that fails, client.Get.  An Update that fails
\* would fail as well at the moment of the Get that follows it, so the two
\* calls are one step.  served is whether the API server took the Update.
Attempt(p, c) ==
  \E nodeIP \in NodeIPs, served \in BOOLEAN, got \in BOOLEAN :
    LET mutated == ApplyUpdateFunc(c, nodeIP)
        updated == [mutated EXCEPT !.ver = revision + 1]
        applied == [c EXCEPT !.toUpdate = Some(mutated), !.nApply = @ + 1]
        tried == [applied EXCEPT !.nUpdate = @ + 1]
    IN  IF StatusUnchanged(Val(c.original), mutated)
        THEN /\ pc' = [pc EXCEPT ![p] = "ret"]
             /\ ctx' = [ctx EXCEPT ![p] = [applied EXCEPT !.result = Nil]]
             /\ UNCHANGED <<remote, revision, lastID>>
        ELSE IF served /\ UpdateAccepted(mutated)
        THEN /\ remote' = Some(updated)
             /\ revision' = revision + 1
             /\ lastID' = IF c.kind = "submit" THEN buildAppID ELSE lastID
             /\ pc' = [pc EXCEPT ![p] = "ret"]
             /\ ctx' = [ctx EXCEPT ![p] = [tried EXCEPT !.result = Some(updated)]]
        ELSE /\ pc' = [pc EXCEPT ![p] = AfterGetPc(AfterGet(tried, got))]
             /\ ctx' = [ctx EXCEPT ![p] = AfterGet(tried, got)]
             /\ UNCHANGED <<remote, revision, lastID>>

\* The next pass of the loop, on the object just fetched.
Retry(p) ==
  /\ pc[p] = "update"
  /\ Attempt(p, ctx[p])
  /\ UNCHANGED <<created, notifications, runningApps, mutex, submissions, recorded>>

(***************************************************************************)
(* The registry.                                                           *)
(***************************************************************************)
Put(apps, app) ==
  [k \in DOMAIN apps \cup {app.Status.AppID} |->
     IF k = app.Status.AppID THEN app ELSE apps[k]]

Remove(apps, appID) == [k \in DOMAIN apps \ {appID} |-> apps[k]]

(***************************************************************************)
(* submitApp: Lock, then the updater with the submission closure.          *)
(***************************************************************************)
submitApp(p, app, resubmission) ==
  /\ mutex = "free"
  /\ mutex' = p
  /\ Attempt(p, Entry("submit", [resubmission |-> resubmission], app))

\* Mutant of submitAppReturn: the test for a nil updatedApp is missing and
\* submitApp goes on with the record it was called with.
submitAppReturnUnchecked(p) ==
  /\ pc[p] = "ret"
  /\ ctx[p].kind = "submit"
  /\ LET updatedApp == IF ctx[p].result = Nil
                       THEN Val(ctx[p].original)
                       ELSE Val(ctx[p].result)
     IN  /\ runningApps' = Put(runningApps, updatedApp)
         /\ \E built \in BOOLEAN :
              submissions' =
                IF ~updatedApp.SubmissionByUser
                THEN submissions \cup
                       {[appID |-> updatedApp.Status.AppID, args |-> built]}
                ELSE submissions
  /\ mutex' = "free"
  /\ pc' = [pc EXCEPT ![p] = "idle"]
  /\ ctx' = [ctx EXCEPT ![p] = NoCtx]
  /\ UNCHANGED <<remote, revision, created, notifications, lastID, recorded>>

\* Mutant of submitAppReturn: the record is stored under the appID of the
\* record submitApp was called with, not of the one the updater returned.
submitAppReturnOldKey(p) ==
  /\ pc[p] = "ret"
  /\ ctx[p].kind = "submit"
  /\ IF ctx[p].result = Nil
     THEN UNCHANGED <<runningApps, submissions>>
     ELSE LET updatedApp == Val(ctx[p].result)
              key == Val(ctx[p].original).Status.AppID
          IN
          /\ runningApps' =
               [k \in DOMAIN runningApps \cup {key} |->
                  IF k = key THEN updatedApp ELSE runningApps[k]]
          /\ \E built \in BOOLEAN :
               submissions' =
                 IF ~updatedApp.SubmissionByUser
                 THEN submissions \cup
                        {[appID |-> updatedApp.Status.AppID, args |-> built]}
                 ELSE submissions
  /\ mutex' = "free"
  /\ pc' = [pc EXCEPT ![p] = "idle"]
  /\ ctx' = [ctx EXCEPT ![p] = NoCtx]
  /\ UNCHANGED <<remote, revision, created, notifications, lastID, recorded>>

\* Mutant of submitAppReturn: the test of Spec.SubmissionByUser is inverted.
submitAppReturnInverted(p) ==
  /\ pc[p] = "ret"
  /\ ctx[p].kind = "submit"
  /\ IF ctx[p].result = Nil
     THEN UNCHANGED <<runningApps, submissions>>
     ELSE LET updatedApp == Val(ctx[p].result) IN
          /\ runningApps' = Put(runningApps, updatedApp)
          /\ \E built \in BOOLEAN :
               submissions' =
                 IF updatedApp.SubmissionByUser
                 THEN submissions \cup
                        {[appID |-> updatedApp.Status.AppID, args |-> built]}
                 ELSE submissions
  /\ mutex' = "free"
  /\ pc' = [pc EXCEPT ![p] = "idle"]
  /\ ctx' = [ctx EXCEPT ![p] = NoCtx]
  /\ UNCHANGED <<remote, revision, created, notifications, lastID, recorded>>

\* Lines 197-213, with the deferred Unlock.  built is whether
\* buildSubmissionCommandArgs returned without an error.
submitAppReturn(p) ==
  /\ pc[p] = "ret"
  /\ ctx[p].kind = "submit"
  /\ IF ctx[p].result = Nil
     THEN UNCHANGED <<runningApps, submissions>>
     ELSE LET updatedApp == Val(ctx[p].result) IN
          /\ runningApps' = Put(runningApps, updatedApp)
          /\ \E built \in BOOLEAN :
               submissions' =
                 IF ~updatedApp.SubmissionByUser
                 THEN submissions \cup
                        {[appID |-> updatedApp.Status.AppID, args |-> built]}
                 ELSE submissions
  /\ mutex' = "free"
  /\ pc' = [pc EXCEPT ![p] = "idle"]
  /\ ctx' = [ctx EXCEPT ![p] = NoCtx]
  /\ UNCHANGED <<remote, revision, created, notifications, lastID, recorded>>

(***************************************************************************)
(* The informer's callbacks.                                               *)
(***************************************************************************)
onAdd ==
  /\ pc["informer"] = "idle"
  /\ notifications # <<>>
  /\ Head(notifications).type = "add"
  /\ LET app == Head(notifications).obj IN
     /\ recorded' = recorded \cup {<<"SparkApplicationSubmission", app.Status.AppID>>}
     /\ submitApp("informer", app, FALSE)
  /\ notifications' = Tail(notifications)
  /\ UNCHANGED <<created, runningApps, submissions>>

onDelete ==
  /\ pc["informer"] = "idle"
  /\ notifications # <<>>
  /\ Head(notifications).type = "delete"
  /\ mutex = "free"
  /\ LET app == Head(notifications).obj IN
     /\ recorded' = recorded \cup {<<"SparkApplicationDeletion", app.Status.AppID>>}
     /\ runningApps' = Remove(runningApps, app.Status.AppID)
  /\ notifications' = Tail(notifications)
  /\ UNCHANGED <<remote, revision, created, mutex, pc, ctx, lastID, submissions>>

(***************************************************************************)
(* The driver reducer.                                                     *)
(***************************************************************************)
DriverStateUpdates(phases, nodes) ==
  [appID : 1..lastID, podName : DriverPods, nodeName : nodes, podPhase : phases]

\* Lines 237-256: an update for an appID that is not tracked is dropped.
processSingleDriverStateUpdate(phases, nodes) ==
  /\ pc["driver"] = "idle"
  /\ mutex = "free"
  /\ \E update \in DriverStateUpdates(phases, nodes) :
       IF update.appID \in DOMAIN runningApps
       THEN /\ mutex' = "driver"
            /\ Attempt("driver", Entry("driver", update, runningApps[update.appID]))
       ELSE UNCHANGED <<mutex, pc, ctx, remote, revision, lastID>>
  /\ UNCHANGED <<created, notifications, runningApps, submissions, recorded>>

\* Mutant of driverReturn: handleRestart is called before the mutex is
\* released.
driverReturnKeepsLock ==
  /\ pc["driver"] = "ret"
  /\ ctx["driver"].kind = "driver"
  /\ IF ctx["driver"].result = Nil
     THEN /\ pc' = [pc EXCEPT !["driver"] = "idle"]
          /\ ctx' = [ctx EXCEPT !["driver"] = NoCtx]
          /\ mutex' = "free"
          /\ UNCHANGED <<runningApps, recorded>>
     ELSE LET updated == Val(ctx["driver"].result)
              terminated == isAppTerminated(updated.Status.State)
              restart == restartEligible(updated.RestartPolicy, updated.Status.State)
          IN  /\ runningApps' = Put(runningApps, updated)
              /\ recorded' = recorded
                   \cup (IF terminated
                         THEN {<<"SparkApplicationTermination", updated.Status.AppID>>}
                         ELSE {})
                   \cup (IF terminated /\ restart
                         THEN {<<"SparkApplicationResubmission", updated.Status.AppID>>}
                         ELSE {})
              /\ IF terminated /\ restart
                 THEN /\ pc' = [pc EXCEPT !["driver"] = "resubmit"]
                      /\ ctx' = [ctx EXCEPT !["driver"] =
                                   [NoCtx EXCEPT !.result = Some(updated)]]
                      /\ mutex' = mutex
                 ELSE /\ pc' = [pc EXCEPT !["driver"] = "idle"]
                      /\ ctx' = [ctx EXCEPT !["driver"] = NoCtx]
                      /\ mutex' = "free"
  /\ UNCHANGED <<remote, revision, created, notifications, lastID, submissions>>

\* Lines 258-261 and 218-227: the registry write, the Unlock, and the
\* caller's test for termination with handleRestart up to its call of
\* submitApp, which then waits for the mutex.
driverReturn ==
  /\ pc["driver"] = "ret"
  /\ ctx["driver"].kind = "driver"
  /\ mutex' = "free"
  /\ IF ctx["driver"].result = Nil
     THEN /\ pc' = [pc EXCEPT !["driver"] = "idle"]
          /\ ctx' = [ctx EXCEPT !["driver"] = NoCtx]
          /\ UNCHANGED <<runningApps, recorded>>
     ELSE LET updated == Val(ctx["driver"].result)
              terminated == isAppTerminated(updated.Status.State)
              restart == restartEligible(updated.RestartPolicy, updated.Status.State)
          IN  /\ runningApps' = Put(runningApps, updated)
              /\ recorded' = recorded
                   \cup (IF terminated
                         THEN {<<"SparkApplicationTermination", updated.Status.AppID>>}
                         ELSE {})
                   \cup (IF terminated /\ restart
                         THEN {<<"SparkApplicationResubmission", updated.Status.AppID>>}
                         ELSE {})
              /\ IF terminated /\ restart
                 THEN /\ pc' = [pc EXCEPT !["driver"] = "resubmit"]
                      /\ ctx' = [ctx EXCEPT !["driver"] =
                                   [NoCtx EXCEPT !.result = Some(updated)]]
                 ELSE /\ pc' = [pc EXCEPT !["driver"] = "idle"]
                      /\ ctx' = [ctx EXCEPT !["driver"] = NoCtx]
  /\ UNCHANGED <<remote, revision, created, notifications, lastID, submissions>>

\* submitApp(app, true) as called by handleRestart.
resubmit ==
  /\ pc["driver"] = "resubmit"
  /\ submitApp("driver", Val(ctx["driver"].result), TRUE)
  /\ UNCHANGED <<created, notifications, runningApps, submissions, recorded>>

(***************************************************************************)
(* The submission-outcome reducer.                                         *)
(***************************************************************************)
AppStateUpdates(states, messages, times) ==
  [appID : 1..lastID, state : states, errorMessage : messages,
   submissionTime : times, completionTime : times]

processSingleAppStateUpdate(states, messages, times) ==
  /\ pc["app"] = "idle"
  /\ mutex = "free"
  /\ \E update \in AppStateUpdates(states, messages, times) :
       IF update.appID \in DOMAIN runningApps
       THEN /\ mutex' = "app"
            /\ Attempt("app", Entry("app", update, runningApps[update.appID]))
       ELSE UNCHANGED <<mutex, pc, ctx, remote, revision, lastID>>
  /\ UNCHANGED <<created, notifications, runningApps, submissions, recorded>>

\* Mutant of appReturn: when the updater gave up, the record it fetched last
\* is stored in the registry.
appReturnStoresFetched ==
  /\ pc["app"] = "ret"
  /\ IF ctx["app"].result = Nil
     THEN /\ runningApps' = IF ctx["app"].toUpdate = Nil
                            THEN runningApps
                            ELSE Put(runningApps, Val(ctx["app"].toUpdate))
          /\ UNCHANGED recorded
     ELSE LET updated == Val(ctx["app"].result) IN
          /\ runningApps' = Put(runningApps, updated)
          /\ recorded' =
               IF updated.Status.State = FailedSubmissionState
               THEN recorded \cup
                      {<<"SparkApplicationSubmissionFailure", updated.Status.AppID>>}
               ELSE recorded
  /\ mutex' = "free"
  /\ pc' = [pc EXCEPT !["app"] = "idle"]
  /\ ctx' = [ctx EXCEPT !["app"] = NoCtx]
  /\ UNCHANGED <<remote, revision, created, notifications, lastID, submissions>>

\* Lines 294-304 and the deferred Unlock.
appReturn ==
  /\ pc["app"] = "ret"
  /\ IF ctx["app"].result = Nil
     THEN UNCHANGED <<runningApps, recorded>>
     ELSE LET updated == Val(ctx["app"].result) IN
          /\ runningApps' = Put(runningApps, updated)
          /\ recorded' =
               IF updated.Status.State = FailedSubmissionState
               THEN recorded \cup
                      {<<"SparkApplicationSubmissionFailure", updated.Status.AppID>>}
               ELSE recorded
  /\ mutex' = "free"
  /\ pc' = [pc EXCEPT !["app"] = "idle"]
  /\ ctx' = [ctx EXCEPT !["app"] = NoCtx]
  /\ UNCHANGED <<remote, revision, created, notifications, lastID, submissions>>

(***************************************************************************)
(* The executor reducer.                                                   *)
(***************************************************************************)
ExecutorStateUpdates(states) ==
  [appID : 1..lastID, podName : ExecutorPods, state : states]

\* Mutant of processSingleExecutorStateUpdate: the reducer does not take the
\* mutex.
processSingleExecutorStateUpdateUnlocked(states) ==
  /\ pc["executor"] = "idle"
  /\ \E update \in ExecutorStateUpdates(states) :
       IF update.appID \in DOMAIN runningApps
       THEN Attempt("executor",
                    Entry("executor", update, runningApps[update.appID]))
       ELSE UNCHANGED <<pc, ctx, remote, revision, lastID>>
  /\ UNCHANGED <<created, notifications, runningApps, submissions, recorded,
                 mutex>>

processSingleExecutorStateUpdate(states) ==
  /\ pc["executor"] = "idle"
  /\ mutex = "free"
  /\ \E update \in ExecutorStateUpdates(states) :
       IF update.appID \in DOMAIN runningApps
       THEN /\ mutex' = "executor"
            /\ Attempt("executor",
                       Entry("executor", update, runningApps[update.appID]))
       ELSE UNCHANGED <<mutex, pc, ctx, remote, revision, lastID>>
  /\ UNCHANGED <<created, notifications, runningApps, submissions, recorded>>

\* Lines 334-336 and the deferred Unlock.
executorReturn ==
  /\ pc["executor"] = "ret"
  /\ runningApps' =
       IF ctx["executor"].result = Nil
       THEN runningApps
       ELSE Put(runningApps, Val(ctx["executor"].result))
  /\ mutex' = "free"
  /\ pc' = [pc EXCEPT !["executor"] = "idle"]
  /\ ctx' = [ctx EXCEPT !["executor"] = NoCtx]
  /\ UNCHANGED <<remote, revision, created, notifications, lastID, submissions,
                 recorded>>

(***************************************************************************)
(* The environment: the user and other clients of the API server.          *)
(***************************************************************************)
\* The user created the resource; the informer is notified of the addition.
Create(policies, flags) ==
  /\ ~created
  /\ revision < MaxVersion
  /\ \E policy \in policies, byUser \in flags :
       LET app == [ver |-> revision + 1, RestartPolicy |-> policy,
                   SubmissionByUser |-> byUser, Status |-> EmptyStatus]
       IN  /\ remote' = Some(app)
           /\ notifications' = Append(notifications, [type |-> "add", obj |-> app])
  /\ revision' = revision + 1
  /\ created' = TRUE
  /\ UNCHANGED <<runningApps, mutex, pc, ctx, lastID, submissions, recorded>>

\* Another client writes the object (its metadata or spec); the status stays.
Touch ==
  /\ remote # Nil
  /\ revision < MaxVersion
  /\ remote' = Some([Val(remote) EXCEPT !.ver = revision + 1])
  /\ revision' = revision + 1
  /\ UNCHANGED <<created, notifications, runningApps, mutex, pc, ctx, lastID,
                 submissions, recorded>>

\* The user deletes the resource; the informer is notified with its last state.
Delete ==
  /\ remote # Nil
  /\ remote' = Nil
  /\ notifications' = Append(notifications, [type |-> "delete", obj |-> Val(remote)])
  /\ UNCHANGED <<revision, created, runningApps, mutex, pc, ctx, lastID,
                 submissions, recorded>>

(***************************************************************************)
(* The controller after newSparkApplicationController and Start.           *)
(***************************************************************************)
Init ==
  /\ remote = Nil
  /\ revision = 0
  /\ created = FALSE
  /\ notifications = <<>>
  /\ runningApps = <<>>
  /\ mutex = "free"
  /\ pc = [p \in Procs |-> "idle"]
  /\ ctx = [p \in Procs |-> NoCtx]
  /\ lastID = 0
  /\ submissions = {}
  /\ recorded = {}

\* The steps of the controller's goroutines that take no input.
Controller ==
  \/ onAdd
  \/ onDelete
  \/ \E p \in {"informer", "driver"} : submitAppReturn(p)
  \/ driverReturn
  \/ resubmit
  \/ appReturn
  \/ executorReturn
  \/ \E p \in Procs : Retry(p)

(***************************************************************************)
(* Spec: every restart policy, both submission modes and every pod phase,  *)
(* with the submission runner reporting Submitted or FailedSubmission and  *)
(* the pod monitor reporting pending and running executors.                *)
(***************************************************************************)
Next ==
  \/ Create(RestartPolicies, BOOLEAN)
  \/ Touch
  \/ Delete
  \/ processSingleDriverStateUpdate(PodPhases, NodeNames)
  \/ processSingleAppStateUpdate({SubmittedState, FailedSubmissionState}, {""}, {0})
  \/ processSingleExecutorStateUpdate({ExecutorPendingState, "RUNNING"})
  \/ Controller

Spec == Init /\ [][Next]_vars

(***************************************************************************)
(* SpecApp: submission-outcome events of every state, with and without     *)
(* timestamps, for an application that restarts whenever its driver ends.  *)
(***************************************************************************)
NextApp ==
  \/ Create({Always}, {FALSE})
  \/ Touch
  \/ Delete
  \/ processSingleDriverStateUpdate({"Succeeded", "Failed"}, {""})
  \/ processSingleAppStateUpdate(ApplicationStates, {"error"}, Instants)
  \/ processSingleExecutorStateUpdate({ExecutorPendingState, "RUNNING"})
  \/ Controller

SpecApp == Init /\ [][NextApp]_vars

(***************************************************************************)
(* SpecLive: the three reducers and the informer contending for the mutex *)
(* under fair scheduling, for an application that is resubmitted when its  *)
(* driver succeeds.  A goroutine that is inside the updater or about to    *)
(* return keeps running (every call to the API server returns), and a      *)
(* goroutine blocked in Lock gets the mutex if it is freed again and again *)
(* (sync.Mutex hands over to a starving waiter).  The reducers are under   *)
(* no obligation to receive events.                                        *)
(***************************************************************************)
NextLive ==
  \/ Create({Always, Never}, {FALSE})
  \/ Touch
  \/ Delete
  \/ processSingleDriverStateUpdate({"Running", "Succeeded"}, {""})
  \/ processSingleAppStateUpdate({SubmittedState}, {""}, {0})
  \/ processSingleExecutorStateUpdate({"RUNNING"})
  \/ Controller

Fairness ==
  /\ \A p \in Procs : WF_vars(Retry(p))
  /\ \A p \in {"informer", "driver"} : WF_vars(submitAppReturn(p))
  /\ WF_vars(driverReturn)
  /\ WF_vars(appReturn)
  /\ WF_vars(executorReturn)
  /\ SF_vars(resubmit)
  /\ SF_vars(onAdd)
  /\ SF_vars(onDelete)

SpecLive == Init /\ [][NextLive]_vars /\ Fairness

(***************************************************************************)
(* SpecFunc: the reducers' closures as functions.  A reducer is given any  *)
(* tracked record and any event of its stream, and updateFunc is applied   *)
(* to the record, then again to what the first application left, each     *)
(* application with its own answer from getNodeExternalIP.  ctx keeps the  *)
(* record in original, the first result in toUpdate, the second in result. *)
(***************************************************************************)
Times == 0..MaxTime

\* The records a reducer may find in the registry, over the status fields
\* its closure reads or writes.
StartingRecords(kind) ==
  LET States == ApplicationStates \cup {""}
      statuses ==
        CASE kind = "app" ->
               {[EmptyStatus EXCEPT !.AppID = 1, !.State = st,
                                    !.ErrorMessage = msg,
                                    !.SubmissionTime = sub,
                                    !.CompletionTime = com] :
                  st \in States, msg \in ErrorMessages,
                  sub \in Times, com \in Times}
          [] kind = "driver" ->
               {[EmptyStatus EXCEPT !.AppID = 1, !.State = st,
                                    !.PodName = pod, !.WebUIAddress = addr,
                                    !.WebUIPort = port] :
                  st \in States, pod \in DriverPods \cup {""},
                  addr \in {<<>>, <<"ip", 4040>>}, port \in {0, 4040}}
          [] kind = "executor" ->
               {[EmptyStatus EXCEPT !.AppID = 1, !.State = st,
                                    !.ExecutorState = map] :
                  st \in States,
                  map \in {NilMap, EmptyMap}
                            \cup {[isNil |-> FALSE, m |-> [e \in ExecutorPods |-> x]] :
                                    x \in ExecutorStates}}
  IN  {[ver |-> 1, RestartPolicy |-> Never, SubmissionByUser |-> FALSE,
        Status |-> st] : st \in statuses}

InitFunc ==
  /\ revision = 1
  /\ created = TRUE
  /\ notifications = <<>>
  /\ mutex = "free"
  /\ lastID = 1
  /\ submissions = {}
  /\ recorded = {}
  /\ \E p \in {"app", "driver", "executor"} :
       \E app \in StartingRecords(p) :
         \E update \in
              CASE p = "app" -> AppStateUpdates(ApplicationStates, ErrorMessages, Times)
                [] p = "driver" -> DriverStateUpdates(PodPhases, NodeNames)
                [] p = "executor" -> ExecutorStateUpdates(ExecutorStates) :
           /\ remote = Some(app)
           /\ runningApps = Put(<<>>, app)
           /\ pc = [q \in Procs |-> IF q = p THEN "apply" ELSE "idle"]
           /\ ctx = [q \in Procs |-> IF q = p THEN Entry(p, update, app) ELSE NoCtx]

\* updateFunc(toUpdate), twice in a row on the same toUpdate.
ApplyTwice(p) ==
  /\ pc[p] = "apply"
  /\ \E first \in NodeIPs, second \in NodeIPs :
       LET once == ApplyUpdateFunc(ctx[p], first)
           twice == ApplyUpdateFunc([ctx[p] EXCEPT !.toUpdate = Some(once)], second)
       IN  ctx' = [ctx EXCEPT ![p] = [@ EXCEPT !.toUpdate = Some(once),
                                               !.result = Some(twice),
                                               !.nApply = 2]]
  /\ pc' = [pc EXCEPT ![p] = "applied"]
  /\ UNCHANGED <<remote, revision, created, notifications, runningApps, mutex,
                 lastID, submissions, recorded>>

NextFunc == \E p \in {"app", "driver", "executor"} : ApplyTwice(p)

SpecFunc == InitFunc /\ [][NextFunc]_vars

(***************************************************************************)
(* Properties.                                                             *)
(***************************************************************************)
\* The updater of p has returned nil after passes that each applied
\* updateFunc, had their Update rejected and their Get answered.
Exhausted(p) ==
  /\ pc[p] = "ret"
  /\ ctx[p].result = Nil
  /\ ctx[p].toUpdate # Nil
  /\ ctx[p].nApply = ctx[p].nUpdate

\* C1, as stated: when every Update is rejected, the updater makes exactly
\* 3 updateFunc/Update passes, returns nil, and has made exactly 2 Get calls.
C1_RetryBoundTwoGets ==
  \A p \in Procs :
    Exhausted(p) => /\ ctx[p].nApply = 3
                    /\ ctx[p].nUpdate = 3
                    /\ ctx[p].nGet = 2

\* C1, amended: when every Update is rejected, the updater makes exactly
\* 3 updateFunc/Update passes and returns nil, and it has made exactly 3 Get
\* calls: the third rejected Update is followed by a Get as well.  No
\* invocation ever makes a fourth Update call.
C1_RetryBound ==
  \A p \in Procs :
    /\ ctx[p].nUpdate <= 3
    /\ Exhausted(p) => /\ ctx[p].nApply = 3
                       /\ ctx[p].nUpdate = 3
                       /\ ctx[p].nGet = 3

\* C1 witness: a reducer's updater has given up after three rejected Updates.
C1_Witness ==
  \E p \in Procs : Exhausted(p) /\ ctx[p].nUpdate = 3 /\ ctx[p].kind # "submit"

(***************************************************************************)
(* The steps of one goroutine, and the event it is processing.             *)
(***************************************************************************)
Terminal == {CompletedState, FailedState}

\* This step is a step of goroutine p.
StepOf(p) == pc'[p] # pc[p] \/ ctx'[p] # ctx[p]

\* The event goroutine p is processing during a step of its own.
EventOf(p) ==
  IF ctx[p].update # Nil THEN Val(ctx[p].update) ELSE Val(ctx'[p].update)

\* The driver reducer returns to processDriverStateUpdates from an event
\* that carries a terminal pod phase.
DriverTerminalReturn ==
  /\ pc["driver"] = "ret"
  /\ ctx["driver"].kind = "driver"
  /\ Val(ctx["driver"].update).podPhase \in {"Succeeded", "Failed"}
  /\ pc'["driver"] # "ret"

\* C2: a driver event with a terminal pod phase for a tracked application is
\* never lost (once it has been processed, the termination of its appID has
\* been handled: the termination event is recorded) and never duplicated (the
\* termination handling it causes is for an appID whose termination has not
\* been handled before).
C2_ExactlyOnceTermination ==
  [][DriverTerminalReturn =>
       /\ <<"SparkApplicationTermination", Val(ctx["driver"].update).appID>>
            \in recorded'
       /\ ctx["driver"].result # Nil =>
            <<"SparkApplicationTermination",
              Val(ctx["driver"].result).Status.AppID>> \notin recorded
    ]_vars

\* What every registry entry and the persisted record keep of a terminal state.
TerminalStateKept ==
  /\ \A k \in DOMAIN runningApps :
       runningApps[k].Status.State \in Terminal =>
         /\ k \in DOMAIN runningApps'
         /\ runningApps'[k].Status.State = runningApps[k].Status.State
  /\ (remote # Nil /\ Val(remote).Status.State \in Terminal) =>
       /\ remote' # Nil
       /\ Val(remote').Status.State = Val(remote).Status.State

\* C3: once a record's state is Completed or Failed, every step of the
\* executor reducer, and every step of the submission-outcome reducer on an
\* event whose state is not FailedSubmission, leaves that state as it is, in
\* the registry and in the persisted record.
C3_TerminalStateMonotonic ==
  [][/\ StepOf("executor") => TerminalStateKept
     /\ (StepOf("app") /\ EventOf("app").state # FailedSubmissionState) =>
          TerminalStateKept
    ]_vars

\* C3 witness: the submission-outcome reducer has written a record whose
\* state was terminal, for an event that reports the application running.
C3_Witness ==
  /\ pc["app"] = "ret"
  /\ ctx["app"].result # Nil
  /\ Val(ctx["app"].update).state = RunningState
  /\ Val(ctx["app"].result).Status.State \in Terminal

\* No registry entry and no persisted record goes from a state that is not
\* terminal to Completed or Failed.
NoneBecomesTerminal ==
  /\ \A k \in DOMAIN runningApps \cap DOMAIN runningApps' :
       runningApps'[k].Status.State \in Terminal =>
         runningApps[k].Status.State \in Terminal
  /\ (remote # Nil /\ remote' # Nil /\ Val(remote').Status.State \in Terminal) =>
       Val(remote).Status.State \in Terminal

\* A terminal state is kept or gives way to FailedSubmission, nothing else.
TerminalForcedOnlyByFailedSubmission ==
  /\ \A k \in DOMAIN runningApps \cap DOMAIN runningApps' :
       runningApps[k].Status.State \in Terminal =>
         runningApps'[k].Status.State \in
           {runningApps[k].Status.State, FailedSubmissionState}
  /\ (remote # Nil /\ remote' # Nil /\ Val(remote).Status.State \in Terminal) =>
       Val(remote').Status.State \in
         {Val(remote).Status.State, FailedSubmissionState}

\* C4, as stated: no step of the executor reducer and no step of the
\* submission-outcome reducer, whatever state its event carries, moves a
\* state that is not terminal to Completed or Failed; over a terminal state
\* the submission-outcome reducer forces FailedSubmission only.
C4_TerminalOnlyByDriverAnyEvent ==
  [][/\ StepOf("executor") => NoneBecomesTerminal
     /\ StepOf("app") =>
          NoneBecomesTerminal /\ TerminalForcedOnlyByFailedSubmission
    ]_vars

\* C4, amended: no step of the executor reducer, and no step of the
\* submission-outcome reducer on an event whose state is neither Completed
\* nor Failed, moves a state that is not terminal to Completed or Failed;
\* over a terminal state the submission-outcome reducer, whatever its event
\* carries, forces FailedSubmission only.
C4_TerminalOnlyByDriver ==
  [][/\ StepOf("executor") => NoneBecomesTerminal
     /\ (StepOf("app") /\ EventOf("app").state \notin Terminal) =>
          NoneBecomesTerminal
     /\ StepOf("app") => TerminalForcedOnlyByFailedSubmission
    ]_vars

\* C4 witness: the submission-outcome reducer has forced FailedSubmission
\* over a state that was terminal in the registry.
C4_Witness ==
  /\ pc["app"] = "ret"
  /\ ctx["app"].result # Nil
  /\ Val(ctx["app"].original).Status.State \in Terminal
  /\ Val(ctx["app"].result).Status.State = FailedSubmissionState

\* handleRestart is called: the driver reducer returns a record whose state
\* is terminal.
HandleRestartCalled ==
  /\ pc["driver"] = "ret"
  /\ ctx["driver"].kind = "driver"
  /\ ctx["driver"].result # Nil
  /\ Val(ctx["driver"].result).Status.State \in Terminal

\* C5: when handleRestart is called, it goes on to submitApp(app, true),
\* which clears the status, if and only if the policy is Always, or the
\* policy is OnFailure and the state is Failed; it records the resubmission
\* in the same cases only.  The record that submitApp(app, true) writes has
\* the status of a fresh submission, whatever port its UI service got.
C5_RestartEligibility ==
  /\ [][(HandleRestartCalled /\ StepOf("driver")) =>
       LET app == Val(ctx["driver"].result)
           eligible == \/ app.RestartPolicy = Always
                       \/ app.RestartPolicy = OnFailure
                          /\ app.Status.State = FailedState
           resubmission == <<"SparkApplicationResubmission", app.Status.AppID>>
       IN  /\ pc'["driver"] = "resubmit" <=> eligible
           /\ recorded' \ recorded \subseteq
                 {<<"SparkApplicationTermination", app.Status.AppID>>}
                   \cup (IF eligible THEN {resubmission} ELSE {})
           /\ eligible => resubmission \in recorded'
           /\ eligible => ctx'["driver"].result = Some(app)
    ]_vars
  /\ [][\A p \in Procs :
          (StepOf(p) /\ pc[p] = "ret" /\ ctx[p].kind = "submit"
           /\ ctx[p].result # Nil /\ Val(ctx[p].update).resubmission) =>
            [Val(ctx[p].result).Status EXCEPT !.WebUIPort = 0] =
              [EmptyStatus EXCEPT !.AppID = Val(ctx[p].result).Status.AppID,
                                  !.State = NewState]
      ]_vars

\* C5 witness: a Failed application with policy OnFailure is about to be
\* resubmitted.
C5_Witness ==
  /\ pc["driver"] = "resubmit"
  /\ Val(ctx["driver"].result).RestartPolicy = OnFailure
  /\ Val(ctx["driver"].result).Status.State = FailedState

\* Goroutine p is inside submitApp before or after this step.
InSubmitApp(p) == ctx[p].kind = "submit" \/ ctx'[p].kind = "submit"

\* C6: when the updater returns nil to submitApp, submitApp inserts nothing
\* in the registry and hands nothing to the submission runner; nor does any
\* step of submitApp before the updater has returned a record.
C6_NoDanglingSubmission ==
  [][\A p \in Procs :
       (StepOf(p) /\ InSubmitApp(p)
        /\ ~(pc[p] = "ret" /\ ctx[p].result # Nil)) =>
         /\ runningApps' = runningApps
         /\ submissions' = submissions
    ]_vars

\* C6 witness: submitApp's updater has returned nil after three rejected
\* Updates.
C6_Witness ==
  \E p \in Procs :
    /\ pc[p] = "ret"
    /\ ctx[p].kind = "submit"
    /\ ctx[p].result = Nil
    /\ ctx[p].nUpdate = 3

\* C7: submitApp, given a record by the updater, registers it in state New,
\* and every request it hands to the submission runner is one whose command
\* arguments were built: a failed build hands over nothing.
C7_BuildFailureNoSubmit ==
  [][\A p \in Procs :
       (StepOf(p) /\ pc[p] = "ret" /\ ctx[p].kind = "submit"
        /\ ctx[p].result # Nil) =>
         LET app == Val(ctx[p].result) IN
         /\ app.Status.AppID \in DOMAIN runningApps'
         /\ runningApps'[app.Status.AppID] = app
         /\ app.Status.State = NewState
         /\ \A s \in submissions' \ submissions : s.args
    ]_vars

\* C8: once the delete notification of the resource has been processed, the
\* registry holds no record of the resource, under any appID it was given.
C8_NoRecordAfterDelete ==
  (\E r \in recorded : r[1] = "SparkApplicationDeletion") =>
    DOMAIN runningApps = {}

\* C9: an executor event with state Pending for a tracked application does
\* nothing: the updater makes no Update call and returns nil, the status it
\* leaves equals the record's, and no registry entry or persisted record
\* holds Pending for an executor.
C9_PendingDoesNothing ==
  /\ (pc["executor"] = "ret"
      /\ Val(ctx["executor"].update).state = ExecutorPendingState) =>
       /\ ctx["executor"].nUpdate = 0
       /\ ctx["executor"].result = Nil
       /\ Val(ctx["executor"].toUpdate).Status =
            Val(ctx["executor"].original).Status
  /\ \A k \in DOMAIN runningApps, e \in ExecutorPods :
       runningApps[k].Status.ExecutorState.m[e] # ExecutorPendingState
  /\ \A e \in ExecutorPods :
       remote # Nil =>
         Val(remote).Status.ExecutorState.m[e] # ExecutorPendingState

\* The updater of p has returned from a pass in which updateFunc left the
\* status equal to the original's: the pass made no Update call.
ShortCircuited(p) ==
  /\ pc[p] = "ret"
  /\ ctx[p].nApply > ctx[p].nUpdate

\* C10, as stated: whenever updateFunc leaves a status equal to the
\* original's, the updater has made zero Update calls and returns nil, and
\* the caller leaves the registry unchanged.
C10_NoOpZeroUpdates ==
  [][\A p \in Procs :
       (StepOf(p) /\ ShortCircuited(p)) =>
         /\ ctx[p].nUpdate = 0
         /\ ctx[p].result = Nil
         /\ runningApps' = runningApps
    ]_vars

\* C10, amended: whenever updateFunc leaves a status equal to the
\* original's, the updater makes no Update call in that pass or after it and
\* returns nil, and the caller leaves the registry unchanged; it has made
\* zero Update calls when that pass is the first.  Conversely every pass
\* that leaves a different status makes an Update call, and a record the
\* updater returns has a status that differs from the original's.
C10_NoOpShortCircuit ==
  [][\A p \in Procs :
       (StepOf(p) /\ pc[p] = "ret") =>
         /\ ShortCircuited(p) =>
              /\ ctx[p].nApply = ctx[p].nUpdate + 1
              /\ Val(ctx[p].toUpdate).Status = Val(ctx[p].original).Status
              /\ ctx[p].nApply = 1 => ctx[p].nUpdate = 0
              /\ ctx[p].result = Nil
              /\ runningApps' = runningApps
         /\ (~ShortCircuited(p) /\ ctx[p].toUpdate # Nil /\ ctx[p].result = Nil) =>
              ctx[p].nUpdate = maximumUpdateRetries
         /\ ctx[p].result # Nil =>
              Val(ctx[p].result).Status # Val(ctx[p].original).Status
    ]_vars

\* C10 witness: a reducer's updater has returned nil from its first pass,
\* the event changing nothing.
C10_Witness ==
  \E p \in Procs :
    /\ ShortCircuited(p)
    /\ ctx[p].kind # "submit"
    /\ ctx[p].nApply = 1
    /\ ctx[p].result = Nil

C12_CreateScenario ==
  [][(StepOf("informer") /\ InSubmitApp("informer")) =>
       IF pc["informer"] = "ret" /\ ctx["informer"].result # Nil
       THEN LET app == Val(ctx["informer"].result)
                appID == app.Status.AppID
            IN  ~app.SubmissionByUser =>
                  /\ appID # 0
                  /\ appID \notin DOMAIN runningApps
                  /\ DOMAIN runningApps' = DOMAIN runningApps \cup {appID}
                  /\ \A k \in DOMAIN runningApps : runningApps'[k] = runningApps[k]
                  /\ runningApps'[appID] = app
                  /\ app.Status.State = NewState
                  /\ \A r \in submissions : r.appID # appID
                  /\ submissions \subseteq submissions'
                  /\ Cardinality(submissions' \ submissions) = 1
                  /\ \A r \in submissions' \ submissions : r.appID = appID
       ELSE /\ runningApps' = runningApps
            /\ submissions' = submissions
    ]_vars

\* C12 witness: the status written for a create notification was persisted,
\* for an application that the controller submits itself.
C12_Witness ==
  /\ pc["informer"] = "ret"
  /\ ctx["informer"].kind = "submit"
  /\ ctx["informer"].result # Nil
  /\ ~Val(ctx["informer"].update).resubmission
  /\ ~Val(ctx["informer"].result).SubmissionByUser

\* Goroutine p makes a client.Update or client.Get call in this step.
RemoteCall(p) ==
  \/ ctx'[p].nUpdate > ctx[p].nUpdate
  \/ ctx'[p].nGet > ctx[p].nGet

\* C13: a goroutine that is inside the updater, or between the updater's
\* return and its own Unlock, holds the mutex, so at most one goroutine is
\* there at a time; every step that reads or writes runningApps, and every
\* step that makes an Update or Get call, is a step of the one goroutine
\* that holds the mutex during it; and the holder keeps the mutex from its
\* Lock, across every pass of the updater, until its return.
C13_MutualExclusion ==
  /\ [](\A p \in Procs : pc[p] \in {"update", "ret"} <=> mutex = p)
  /\ [](\A p, q \in Procs :
          (pc[p] \in {"update", "ret"} /\ pc[q] \in {"update", "ret"}) => p = q)
  /\ [][\A p \in Procs :
          RemoteCall(p) => /\ mutex \in {"free", p}
                           /\ mutex = "free" => pc[p] \in {"idle", "resubmit"}
                           /\ mutex' = p
      ]_vars
  /\ [][runningApps' # runningApps =>
          \/ \E p \in Procs : mutex = p /\ StepOf(p) /\ mutex' = "free"
          \/ /\ mutex = "free" /\ mutex' = "free"
             /\ pc["informer"] = "idle"
             /\ notifications # <<>> /\ Head(notifications).type = "delete"
             /\ notifications' = Tail(notifications)
      ]_vars
  /\ [][\A p \in Procs :
          (mutex = p /\ mutex' # p) => (pc[p] = "ret" /\ mutex' = "free")
      ]_vars

\* C13 witness: the executor reducer is in its third pass, two Gets behind
\* it, holding the mutex, while a notification waits for the informer's
\* callback and the driver goroutine for its resubmission.
C13_Witness ==
  /\ pc["executor"] = "update"
  /\ ctx["executor"].nGet = 2
  /\ mutex = "executor"
  /\ notifications # <<>>
  /\ pc["driver"] = "resubmit"

\* The three reducer goroutines.
Reducers == {"app", "driver", "executor"}

\* Goroutine p is processing an event of its stream (not resubmitting).
InReducer(p) ==
  /\ p \in Reducers
  /\ ctx[p].kind \in {"app", "driver", "executor"}

\* C14: when the updater returns nil to a reducer, after three rejected
\* Updates or after a Get that failed, the reducer leaves runningApps as it
\* was when the event arrived, records nothing, releases the mutex and is
\* back at the head of its loop, ready for its next event; and no step of a
\* reducer before the updater's return changes runningApps.
C14_LossyDegradation ==
  /\ [][\A p \in Reducers :
          (StepOf(p) /\ InReducer(p) /\ pc[p] = "ret"
           /\ ctx[p].result = Nil) =>
            /\ runningApps' = runningApps
            /\ recorded' = recorded
            /\ mutex = p /\ mutex' = "free"
            /\ pc'[p] = "idle"
            /\ ctx'[p] = NoCtx
      ]_vars
  /\ [][\A p \in Reducers :
          (StepOf(p) /\ pc[p] # "ret"
           /\ ctx'[p].kind \in {"app", "driver", "executor"}) =>
            runningApps' = runningApps
      ]_vars
  /\ [](\A p \in Reducers :
          InReducer(p) =>
            /\ pc[p] \in {"update", "ret"}
            /\ pc[p] = "update" => ctx[p].nUpdate < maximumUpdateRetries)

\* C14 witness: the submission-outcome reducer's updater has returned nil
\* because the Get after a rejected Update failed.
C14_Witness ==
  /\ pc["app"] = "ret"
  /\ ctx["app"].result = Nil
  /\ ctx["app"].toUpdate = Nil
  /\ ctx["app"].nGet >= 1

\* C15: every registry entry is stored under the appID its own status
\* carries.
C15_RegistryKey ==
  \A k \in DOMAIN runningApps : runningApps[k].Status.AppID = k

\* C15 witness: after a restart the registry holds records under two appIDs,
\* one of them written again by a reducer.
C15_Witness ==
  /\ Cardinality(DOMAIN runningApps) = 2
  /\ \E k \in DOMAIN runningApps : runningApps[k].Status.PodName # ""

\* C16: the registry holds at most one record of the resource at any time:
\* once a resubmission has stored the new record, the entry under the
\* previous appID is gone.
C16_ReplacedOnRestart ==
  Cardinality(DOMAIN runningApps) <= 1

\* updateFunc has been applied twice for goroutine p: ctx[p].toUpdate is
\* the record after one application, ctx[p].result after two.
AppliedTwice(p) == pc[p] = "applied"

C18_TimestampsForward ==
  AppliedTwice("app") =>
    LET start == Val(ctx["app"].original).Status
        once == Val(ctx["app"].toUpdate).Status
    IN  /\ start.SubmissionTime # 0 => once.SubmissionTime >= start.SubmissionTime
        /\ start.CompletionTime # 0 => once.CompletionTime >= start.CompletionTime

\* C19: an event that carries appID X touches no record but that of X: every
\* pass of a reducer's updater applies updateFunc to a record whose appID is
\* X, the record the updater returns (the one it persisted) has appID X, and
\* the reducer writes no registry entry but that of X.
C19_PerAttemptIsolation ==
  [][\A p \in Reducers :
       (StepOf(p) /\ InReducer(p)) =>
         LET X == Val(ctx[p].update).appID IN
         /\ pc[p] = "update" => Val(ctx[p].toUpdate).Status.AppID = X
         /\ ctx[p].result # Nil => Val(ctx[p].result).Status.AppID = X
         /\ \A k \in DOMAIN runningApps' :
              (k \notin DOMAIN runningApps \/ runningApps'[k] # runningApps[k]) =>
                k = X
    ]_vars

\* C20: no goroutine takes the mutex while it holds it: the driver
\* goroutine, the only one that takes it twice for one event, is outside
\* the mutex when handleRestart calls submitApp; every goroutine that holds
\* the mutex releases it; and every goroutine that waits for it gets it:
\* the driver goroutine for its resubmission, the informer for each
\* notification of its queue.
C20_DeadlockFreedom ==
  /\ [](pc["driver"] = "resubmit" => mutex # "driver")
  /\ [][\A p \in Procs : mutex' = p /\ mutex # p => mutex = "free"]_vars
  /\ \A p \in Procs : (mutex = p) ~> (mutex = "free")
  /\ (pc["driver"] = "resubmit") ~> (mutex = "driver")
  /\ \A n \in 1..2 : (Len(notifications) = n) ~> (Len(notifications) < n)

\* C20 witness: the driver goroutine waits for the mutex to resubmit while
\* another reducer holds it and the informer has a notification to handle.
C20_Witness ==
  /\ pc["driver"] = "resubmit"
  /\ mutex \in {"app", "executor"}
  /\ notifications # <<>>

====
